---- MODULE Spec2Model ----
(***************************************************************************)
(* Model of the HD44780 I2C driver (src/hd44780/hd44780.go).               *)
(*                                                                         *)
(* The state is one Hd44780I2c value (pin map, backlight flag, the three   *)
(* mode fields) together with a record of the last public call: its        *)
(* arguments, the sequence of time.Sleep and I2C.WriteByte events it made, *)
(* the sequence of write(data, rs) invocations it made, the error it       *)
(* returned and the count it returned (Write only).  The I2C transport is  *)
(* external: it either accepts every byte or fails at the failAt-th        *)
(* WriteByte of the call.                                                  *)
(***************************************************************************)
EXTENDS Integers, Sequences, FiniteSets, TLC

VARIABLES phase, hd, op, modes, args, trace, calls, err, ret

vars == <<phase, hd, op, modes, args, trace, calls, err, ret>>

(***************************************************************************)
(* Bounds of the model.                                                    *)
(***************************************************************************)
\* pin maps are the two presets with every position rotated by 0..MaxRot
MaxRot == 1
\* a caller of SetMode passes at most MaxSetters mode setters
MaxSetters == 2
\* a caller of the constructor passes at most MaxOverrides mode setters
MaxOverrides == 1
\* a caller of DisplayString passes a text of at most MaxLen characters
MaxLen == 3

(***************************************************************************)
(* Byte arithmetic (Go's byte: 8 bits, shifts and ors truncate).           *)
(***************************************************************************)
Byte == 0..255

Bit(x, i) == (x \div (2^i)) % 2

Shl(x, n) == (x * (2^n)) % 256

Shr(x, n) == x \div (2^n)

\* a | b, bit by bit from the low end
RECURSIVE Or(_, _)
Or(a, b) ==
  IF a = 0 THEN b
  ELSE IF b = 0 THEN a
  ELSE (IF a % 2 = 1 \/ b % 2 = 1 THEN 1 ELSE 0) + 2 * Or(a \div 2, b \div 2)

\* a & b, bit by bit from the low end
RECURSIVE And(_, _)
And(a, b) ==
  IF a = 0 \/ b = 0 THEN 0
  ELSE (IF a % 2 = 1 /\ b % 2 = 1 THEN 1 ELSE 0) + 2 * And(a \div 2, b \div 2)

Not(a) == 255 - a

(***************************************************************************)
(* Constants of the driver.  Delays are in microseconds.                   *)
(***************************************************************************)
Negative == FALSE
Positive == TRUE

writeDelay == 40
pulseDelay == 1
clearDelay == 1640
initDelay1 == 4100
initDelay2 == 100
powerDelay == 20000

lcdClearDisplay == 1
lcdReturnHome == 2
lcdCursorShift == 16
lcdSetCGRamAddr == 64
lcdSetDDRamAddr == 128

lcdSetEntryMode == 4
lcdEntryIncrement == 2
lcdEntryShiftOn == 1

lcdDisplayOn == 4
lcdBlinkCursorOn == 1
lcdUnderlineCursorOn == 2
lcdSetDisplayMode == 8

lcdMoveLeft == 0
lcdMoveRight == 4
lcdDisplayMove == 8

lcd2Line == 8
lcd8BitMode == 16
lcd5x10Dots == 4
lcdSetFunctionMode == 32

lcdBacklightOff == 0
lcdBacklightOn == 8

registerSelectHigh == 1
registerSelectLow == 0

(***************************************************************************)
(* I2CPinMap and its two presets.                                          *)
(***************************************************************************)
MJKDZPinMap ==
  [RS |-> 6, RW |-> 5, EN |-> 4, D4 |-> 0, D5 |-> 1, D6 |-> 2, D7 |-> 3,
   Backlight |-> 7, BLPolarity |-> Negative]

PCF8574PinMap ==
  [RS |-> 0, RW |-> 1, EN |-> 2, D4 |-> 4, D5 |-> 5, D6 |-> 6, D7 |-> 7,
   Backlight |-> 3, BLPolarity |-> Positive]

Presets == {MJKDZPinMap, PCF8574PinMap}

\* the positions of pm all moved up by r (mirrored first when mir), with
\* polarity pol: another map of 8 distinct positions
Place(p, r, mir) == ((IF mir THEN 7 - p ELSE p) + r) % 8

Rotate(pm, r, mir, pol) ==
  [RS |-> Place(pm.RS, r, mir), RW |-> Place(pm.RW, r, mir),
   EN |-> Place(pm.EN, r, mir), D4 |-> Place(pm.D4, r, mir),
   D5 |-> Place(pm.D5, r, mir), D6 |-> Place(pm.D6, r, mir),
   D7 |-> Place(pm.D7, r, mir), Backlight |-> Place(pm.Backlight, r, mir),
   BLPolarity |-> pol]

PinMaps ==
  {Rotate(pm, r, mir, pol) :
     pm \in Presets, r \in 0..MaxRot, mir \in BOOLEAN, pol \in BOOLEAN}

Positions(pm) == <<pm.RS, pm.RW, pm.EN, pm.D4, pm.D5, pm.D6, pm.D7, pm.Backlight>>

\* the invariant the pin map type documents: 8 pairwise distinct positions
ValidPinMap(pm) ==
  /\ \A i \in 1..8 : Positions(pm)[i] \in 0..7
  /\ \A i, j \in 1..8 : i # j => Positions(pm)[i] # Positions(pm)[j]

(***************************************************************************)
(* The transport and the clock, as events of the running call.             *)
(* A world w is the connection plus the events of the call in progress:    *)
(*   w.hd      the Hd44780I2c value                                        *)
(*   w.trace   the Sleep and WriteByte events so far, each WriteByte with   *)
(*             the transport's answer (ok)                                 *)
(*   w.calls   the write(data, rs) invocations so far                      *)
(*   w.n       the number of WriteByte calls so far                        *)
(*   w.failAt  the WriteByte call that fails (0: none)                     *)
(*   w.err     0 for nil, else the error of the failAt-th WriteByte        *)
(*   w.ret     the int a call returns beside its error (Write), else 0     *)
(* Once w.err is set the call has returned that error: every "if err !=    *)
(* nil { return err }" of the source is the test w.err # 0 at the head of  *)
(* the statement that would have run next, which then leaves w alone.      *)
(***************************************************************************)
BusEv(b, ok) == [k |-> "bus", v |-> b, ok |-> ok]

SleepEv(d) == [k |-> "sleep", v |-> d, ok |-> TRUE]

Sleep(w, d) ==
  IF w.err # 0 THEN w ELSE [w EXCEPT !.trace = Append(@, SleepEv(d))]

WriteByte(w, b) ==
  [w EXCEPT !.trace = Append(@, BusEv(b, w.n + 1 # w.failAt)),
            !.n = @ + 1,
            !.err = IF w.n + 1 = w.failAt THEN w.n + 1 ELSE 0]

World(h, failAt) ==
  [hd |-> h, trace |-> <<>>, calls |-> <<>>, n |-> 0, failAt |-> failAt, err |-> 0,
   ret |-> 0]

(***************************************************************************)
(* write: one byte as two nibble frames, each strobed with three bytes.    *)
(***************************************************************************)
instructionHigh(pm, data) ==
  Or(Or(Or(Or(0, Shl(And(Shr(data, 4), 1), pm.D4)),
              Shl(And(Shr(data, 5), 1), pm.D5)),
           Shl(And(Shr(data, 6), 1), pm.D6)),
     Shl(And(Shr(data, 7), 1), pm.D7))

\* mutant of instructionLow: bits 0 and 1 land on each other's pin
instructionLowSwapped(pm, data) ==
  Or(Or(Or(Or(0, Shl(And(Shr(data, 1), 1), pm.D4)),
              Shl(And(Shr(data, 0), 1), pm.D5)),
           Shl(And(Shr(data, 2), 1), pm.D6)),
     Shl(And(Shr(data, 3), 1), pm.D7))

instructionLow(pm, data) ==
  Or(Or(Or(Or(0, Shl(And(Shr(data, 0), 1), pm.D4)),
              Shl(And(Shr(data, 1), 1), pm.D5)),
           Shl(And(Shr(data, 2), 1), pm.D6)),
     Shl(And(Shr(data, 3), 1), pm.D7))

\* mutant of backlightBits: the polarity is ignored
backlightBitsIgnorePolarity(h) ==
  IF h.backlight THEN Shl(1, h.PinMap.Backlight) ELSE 0

\* the backlight bit of a frame: set when the flag equals the polarity
backlightBits(h) ==
  IF h.backlight = h.PinMap.BLPolarity THEN Shl(1, h.PinMap.Backlight) ELSE 0

\* mutant of frame: the read/write bit is or-ed in as well
frameSetsRW(h, ins, rs) ==
  Or(Or(Or(ins, Shl(rs, h.PinMap.RS)), Shl(1, h.PinMap.RW)),
     IF h.backlight = h.PinMap.BLPolarity THEN Shl(1, h.PinMap.Backlight) ELSE 0)

\* ins after the register select and backlight bits are or-ed in
frame(h, ins, rs) == Or(Or(ins, Shl(rs, h.PinMap.RS)), backlightBits(h))

\* mutant of strobeBytes: enable is raised at once, without the setup write
strobeNoSetup(h, ins) == <<Or(ins, Shl(1, h.PinMap.EN)), ins>>

\* the three bytes of one strobe
strobeBytes(h, ins) == <<ins, Or(ins, Shl(1, h.PinMap.EN)), ins>>

\* mutant of writeBytes: the error of a bus write is not looked at
RECURSIVE writeBytesKeepGoing(_, _)
writeBytesKeepGoing(w, bs) ==
  IF bs = <<>> THEN w
  ELSE writeBytesKeepGoing(WriteByte(Sleep(w, pulseDelay), Head(bs)), Tail(bs))

\* the inner loop: a pulse delay, then one bus write; the first error returns
RECURSIVE writeBytes(_, _)
writeBytes(w, bs) ==
  IF w.err # 0 \/ bs = <<>> THEN w
  ELSE writeBytes(WriteByte(Sleep(w, pulseDelay), Head(bs)), Tail(bs))

write(w, data, rs) ==
  IF w.err # 0 THEN w
  ELSE LET w0 == [w EXCEPT !.calls = Append(@, <<data, rs>>)]
           wH == writeBytes(w0, strobeBytes(w.hd, frame(w.hd, instructionHigh(w.hd.PinMap, data), rs)))
           wL == writeBytes(wH, strobeBytes(w.hd, frame(w.hd, instructionLow(w.hd.PinMap, data), rs)))
       IN  Sleep(wL, writeDelay)

\* mutant of WriteChar: the register select is left low
WriteCharAsInstruction(w, value) == write(w, value, registerSelectLow)

WriteChar(w, value) == write(w, value, registerSelectHigh)

WriteInstruction(w, value) == write(w, value, registerSelectLow)

(***************************************************************************)
(* Mode setters: pure changes of one flag of the Hd44780I2c value.         *)
(***************************************************************************)
EntryDecrement(h) == [h EXCEPT !.eMode = And(@, Not(lcdEntryIncrement))]

EntryIncrement(h) == [h EXCEPT !.eMode = Or(@, lcdEntryIncrement)]

EntryShiftOff(h) == [h EXCEPT !.eMode = And(@, Not(lcdEntryShiftOn))]

\* mutant of EntryShiftOn: the flag is flipped, not set
EntryShiftOnFlips(h) ==
  [h EXCEPT !.eMode = IF Bit(@, 0) = 1 THEN @ - lcdEntryShiftOn ELSE @ + lcdEntryShiftOn]

EntryShiftOn(h) == [h EXCEPT !.eMode = Or(@, lcdEntryShiftOn)]

DisplayOff(h) == [h EXCEPT !.dMode = And(@, Not(lcdDisplayOn))]

DisplayOn(h) == [h EXCEPT !.dMode = Or(@, lcdDisplayOn)]

UnderlineCursorOff(h) == [h EXCEPT !.dMode = And(@, Not(lcdUnderlineCursorOn))]

\* mutant of UnderlineCursorOn: the flag lands on bit 4 of the field
UnderlineCursorOnWide(h) == [h EXCEPT !.dMode = Or(@, Shl(lcdUnderlineCursorOn, 3))]

UnderlineCursorOn(h) == [h EXCEPT !.dMode = Or(@, lcdUnderlineCursorOn)]

BlinkCursorOff(h) == [h EXCEPT !.dMode = And(@, Not(lcdBlinkCursorOn))]

BlinkCursorOn(h) == [h EXCEPT !.dMode = Or(@, lcdBlinkCursorOn)]

FourBitMode(h) == [h EXCEPT !.fMode = And(@, Not(lcd8BitMode))]

EightBitMode(h) == [h EXCEPT !.fMode = Or(@, lcd8BitMode)]

OneLine(h) == [h EXCEPT !.fMode = And(@, Not(lcd2Line))]

TwoLine(h) == [h EXCEPT !.fMode = Or(@, lcd2Line)]

Dots5x8(h) == [h EXCEPT !.fMode = And(@, Not(lcd5x10Dots))]

Dots5x10(h) == [h EXCEPT !.fMode = Or(@, lcd5x10Dots)]

\* a ModeSetter value is named by the function it is
ModeSetter ==
  {"EntryDecrement", "EntryIncrement", "EntryShiftOff", "EntryShiftOn",
   "DisplayOff", "DisplayOn", "UnderlineCursorOff", "UnderlineCursorOn",
   "BlinkCursorOff", "BlinkCursorOn", "FourBitMode", "EightBitMode",
   "OneLine", "TwoLine", "Dots5x8", "Dots5x10"}

\* m(hd) for a ModeSetter m
Apply(m, h) ==
  CASE m = "EntryDecrement" -> EntryDecrement(h)
    [] m = "EntryIncrement" -> EntryIncrement(h)
    [] m = "EntryShiftOff" -> EntryShiftOff(h)
    [] m = "EntryShiftOn" -> EntryShiftOn(h)
    [] m = "DisplayOff" -> DisplayOff(h)
    [] m = "DisplayOn" -> DisplayOn(h)
    [] m = "UnderlineCursorOff" -> UnderlineCursorOff(h)
    [] m = "UnderlineCursorOn" -> UnderlineCursorOn(h)
    [] m = "BlinkCursorOff" -> BlinkCursorOff(h)
    [] m = "BlinkCursorOn" -> BlinkCursorOn(h)
    [] m = "FourBitMode" -> FourBitMode(h)
    [] m = "EightBitMode" -> EightBitMode(h)
    [] m = "OneLine" -> OneLine(h)
    [] m = "TwoLine" -> TwoLine(h)
    [] m = "Dots5x8" -> Dots5x8(h)
    [] m = "Dots5x10" -> Dots5x10(h)

DefaultModes ==
  <<"FourBitMode", "TwoLine", "Dots5x8", "EntryIncrement", "EntryShiftOff",
    "DisplayOn", "UnderlineCursorOff", "BlinkCursorOff">>

\* the mode query accessors
EntryIncrementEnabled(h) == And(h.eMode, lcdEntryIncrement) > 0

EntryShiftEnabled(h) == And(h.eMode, lcdEntryShiftOn) > 0

DisplayEnabled(h) == And(h.dMode, lcdDisplayOn) > 0

CursorEnabled(h) == And(h.dMode, lcdUnderlineCursorOn) > 0

BlinkEnabled(h) == And(h.dMode, lcdBlinkCursorOn) > 0

EightBitModeEnabled(h) == And(h.fMode, lcd8BitMode) > 0

TwoLineEnabled(h) == And(h.fMode, lcd2Line) > 0

(***************************************************************************)
(* Committing the modes.                                                   *)
(***************************************************************************)
setEntryMode(w) == WriteInstruction(w, Or(lcdSetEntryMode, w.hd.eMode))

setDisplayMode(w) == WriteInstruction(w, Or(lcdSetDisplayMode, w.hd.dMode))

setFunctionMode(w) == WriteInstruction(w, Or(lcdSetFunctionMode, w.hd.fMode))

\* the first loop of SetMode: every setter applied, left to right
RECURSIVE applyModes(_, _)
applyModes(h, ms) ==
  IF ms = <<>> THEN h ELSE applyModes(Apply(Head(ms), h), Tail(ms))

\* the second loop of SetMode: entry, display, function; the first error returns
commitModes(w) ==
  setFunctionMode(setDisplayMode(setEntryMode(w)))

\* mutant of SetMode: the commit runs before the setters
SetModeCommitFirst(w, ms) ==
  [commitModes(w) EXCEPT !.hd = applyModes(@, ms)]

\* mutant of SetMode: a failed commit puts the fields back
SetModeRollsBack(w, ms) ==
  IF w.err # 0 THEN w
  ELSE LET r == commitModes([w EXCEPT !.hd = applyModes(@, ms)])
       IN  IF r.err # 0 THEN [r EXCEPT !.hd = w.hd] ELSE r

SetMode(w, ms) ==
  IF w.err # 0 THEN w ELSE commitModes([w EXCEPT !.hd = applyModes(@, ms)])

(***************************************************************************)
(* Clear, Home, the shifts, the backlight and the per-flag methods.        *)
(***************************************************************************)
\* mutant of Clear: the clear alone, as before the re-commit was added
ClearNoRecommit(w) == WriteInstruction(w, lcdClearDisplay)

\* mutant of Clear: the display field follows the controller's reset
ClearResetsModes(w) ==
  SetMode(Sleep([WriteInstruction(w, lcdClearDisplay) EXCEPT !.hd.dMode = 0],
                clearDelay), <<>>)

\* mutant of Clear: the modes are committed whatever became of the clear
ClearRecommitsAnyway(w) ==
  SetMode([Sleep(WriteInstruction(w, lcdClearDisplay), clearDelay) EXCEPT !.err = 0],
          <<>>)

Clear(w) ==
  SetMode(Sleep(WriteInstruction(w, lcdClearDisplay), clearDelay), <<>>)

Home(w) == WriteInstruction(w, lcdReturnHome)

ShiftLeft(w) == WriteInstruction(w, Or(Or(lcdCursorShift, lcdDisplayMove), lcdMoveLeft))

ShiftRight(w) == WriteInstruction(w, Or(Or(lcdCursorShift, lcdDisplayMove), lcdMoveRight))

SetDDRamAddr(w, value) == WriteInstruction(w, Or(lcdSetDDRamAddr, value))

BacklightOn(w) == WriteByte([w EXCEPT !.hd.backlight = TRUE], lcdBacklightOn)

BacklightOff(w) == WriteByte([w EXCEPT !.hd.backlight = FALSE], lcdBacklightOff)

\* the methods DisplayOff .. EntryShiftOff: one setter, then one mode-set
FlagMethod == 
  {"DisplayOff", "DisplayOn", "UnderlineCursorOff", "UnderlineCursorOn",
   "BlinkCursorOff", "BlinkCursorOn", "EntryShiftOn", "EntryShiftOff"}

\* mutant of flagMethod: the setter is followed by a commit of all fields
flagMethodCommitsAll(w, m) == commitModes([w EXCEPT !.hd = Apply(m, @)])

flagMethod(w, m) ==
  IF m \in {"EntryShiftOn", "EntryShiftOff"}
  THEN setEntryMode([w EXCEPT !.hd = Apply(m, @)])
  ELSE setDisplayMode([w EXCEPT !.hd = Apply(m, @)])

(***************************************************************************)
(* DisplayString and LoadCustomChars.  A string is its sequence of runes;  *)
(* byte(c) keeps the low 8 bits.                                           *)
(***************************************************************************)
\* the switch of DisplayString: address stays 0 when no case matches
lineAddress(line, pos) ==
  CASE line = 1 -> pos
    [] line = 2 -> (64 + pos) % 256
    [] line = 3 -> (16 + pos) % 256
    [] line = 4 -> (84 + pos) % 256
    [] OTHER -> 0

\* the loops over the characters: the first error returns
RECURSIVE writeChars(_, _)
writeChars(w, cs) ==
  IF w.err # 0 \/ cs = <<>> THEN w
  ELSE writeChars(WriteChar(w, Head(cs) % 256), Tail(cs))

\* mutant of DisplayString: the characters are streamed without addressing
DisplayStringSkipsAddress(w, str, line, pos) == writeChars(w, str)

DisplayString(w, str, line, pos) ==
  writeChars(WriteInstruction(w, (lcdSetDDRamAddr + lineAddress(line, pos)) % 256), str)

\* mutant of flatten: row r of every glyph before row r + 1 of any
flattenRowsFirst(chars) ==
  [i \in 1..64 |-> chars[((i - 1) % 8) + 1][((i - 1) \div 8) + 1]]

maxInt(a, b) == IF a > b THEN a ELSE b

\* the loop of Write from index i on (Go counts from 0): the first error
\* returns the count maxInt(i - 1, 0) with it
RECURSIVE writeFrom(_, _, _)
writeFrom(w, buf, i) ==
  IF i >= Len(buf) THEN [w EXCEPT !.ret = Len(buf)]
  ELSE LET w1 == WriteChar(w, buf[i + 1])
       IN  IF w1.err # 0 THEN [w1 EXCEPT !.ret = maxInt(i - 1, 0)]
           ELSE writeFrom(w1, buf, i + 1)

Write(w, buf) == writeFrom(w, buf, 0)

\* chars is 8 glyphs of 8 rows; the nested loops visit them in order
RECURSIVE flatten(_)
flatten(chars) ==
  IF chars = <<>> THEN <<>> ELSE Head(chars) \o flatten(Tail(chars))

LoadCustomChars(w, chars) ==
  writeChars(WriteInstruction(w, lcdSetCGRamAddr), flatten(chars))

(***************************************************************************)
(* Construction.                                                           *)
(***************************************************************************)
\* mutant of lcdInit: the error of the third reset is not looked at
lcdInitCarriesOn(w) ==
  LET w1 == WriteInstruction(Sleep(w, powerDelay), 3)
      w2 == WriteInstruction(Sleep(w1, initDelay1), 3)
      w3 == WriteInstruction(Sleep(w2, initDelay2), 3)
      w4 == WriteInstruction([w3 EXCEPT !.err = 0], 2)
  IN  Clear(w4)

\* mutant of lcdInit: the second reset follows the first at once
lcdInitNoSettle(w) ==
  LET w1 == WriteInstruction(Sleep(w, powerDelay), 3)
      w2 == WriteInstruction(w1, 3)
      w3 == WriteInstruction(Sleep(w2, initDelay2), 3)
      w4 == WriteInstruction(w3, 2)
  IN  Clear(w4)

lcdInit(w) ==
  LET w1 == WriteInstruction(Sleep(w, powerDelay), 3)
      w2 == WriteInstruction(Sleep(w1, initDelay1), 3)
      w3 == WriteInstruction(Sleep(w2, initDelay2), 3)
      w4 == WriteInstruction(w3, 2)
  IN  Clear(w4)

\* the value the constructor starts from
NewConn(pinMap) ==
  [PinMap |-> pinMap, backlight |-> TRUE, eMode |-> 0, dMode |-> 0, fMode |-> 0]

\* mutant of NewHd44780I2c: the error of lcdInit is dropped
NewIgnoresInitError(pinMap, ms, failAt) ==
  SetMode([lcdInit(World(NewConn(pinMap), failAt)) EXCEPT !.err = 0],
          DefaultModes \o ms)

\* mutant of NewHd44780I2c: the defaults are applied after the overrides
NewOverridesFirst(pinMap, ms, failAt) ==
  SetMode(lcdInit(World(NewConn(pinMap), failAt)), ms \o DefaultModes)

NewHd44780I2c(pinMap, ms, failAt) ==
  SetMode(lcdInit(World(NewConn(pinMap), failAt)), DefaultModes \o ms)

(***************************************************************************)
(* The state machine: one action per public call.  A call runs to its      *)
(* return; the state keeps what it did and what it returned.               *)
(***************************************************************************)
\* the caller holds no connection: Go's zero value stands for nil
ZeroPinMap ==
  [RS |-> 0, RW |-> 0, EN |-> 0, D4 |-> 0, D5 |-> 0, D6 |-> 0, D7 |-> 0,
   Backlight |-> 0, BLPolarity |-> FALSE]

NoConn ==
  [PinMap |-> ZeroPinMap, backlight |-> FALSE, eMode |-> 0, dMode |-> 0, fMode |-> 0]

\* the bus writes of one write call, of a mode commit, of Clear, of construction
BusPerWrite == 2 * 3
BusPerCommit == 3 * BusPerWrite
BusPerClear == BusPerWrite + BusPerCommit
BusPerNew == 4 * BusPerWrite + BusPerClear + BusPerCommit

\* sequences of at most n elements of S
RECURSIVE SeqUpTo(_, _)
SeqUpTo(S, n) ==
  IF n = 0 THEN {<<>>}
  ELSE LET shorter == SeqUpTo(S, n - 1)
       IN  shorter \cup {Append(q, x) : q \in shorter, x \in S}

\* bytes the callers of the chained specifications write
DataBytes == {65, 195}

\* the battery glyphs of the CustomChar documentation
BatteryChars ==
  << <<14, 27, 17, 17, 17, 17, 17, 31>>, <<14, 27, 17, 17, 17, 17, 31, 31>>,
     <<14, 27, 17, 17, 17, 31, 31, 31>>, <<14, 27, 17, 17, 31, 31, 31, 31>>,
     <<14, 27, 17, 31, 31, 31, 31, 31>>, <<14, 27, 31, 31, 31, 31, 31, 31>>,
     <<14, 31, 31, 31, 31, 31, 31, 31>>, <<0, 0, 0, 0, 0, 0, 0, 0>> >>

\* the call returned: keep the connection, the events and the error
Returned(name, ms, w) ==
  /\ hd' = w.hd
  /\ op' = name
  /\ modes' = ms
  /\ trace' = w.trace
  /\ calls' = w.calls
  /\ err' = w.err
  /\ ret' = w.ret

\* the constructor returned: the connection, or nil with the error
ReturnedNew(ms, w) ==
  /\ phase' = IF w.err = 0 THEN "ready" ELSE "failed"
  /\ Returned("New", ms, IF w.err = 0 THEN w ELSE [w EXCEPT !.hd = NoConn])

CallNew(pinMap, ms, failAt) ==
  /\ phase = "new"
  /\ args' = <<pinMap>>
  /\ ReturnedNew(ms, NewHd44780I2c(pinMap, ms, failAt))

CallSetMode(ms, failAt) ==
  /\ phase = "ready"
  /\ args' = <<>>
  /\ Returned("SetMode", ms, SetMode(World(hd, failAt), ms))
  /\ UNCHANGED phase

CallClear(failAt) ==
  /\ phase = "ready"
  /\ args' = <<>>
  /\ Returned("Clear", <<>>, Clear(World(hd, failAt)))
  /\ UNCHANGED phase

CallHome(failAt) ==
  /\ phase = "ready"
  /\ args' = <<>>
  /\ Returned("Home", <<>>, Home(World(hd, failAt)))
  /\ UNCHANGED phase

CallShiftLeft(failAt) ==
  /\ phase = "ready"
  /\ args' = <<>>
  /\ Returned("ShiftLeft", <<>>, ShiftLeft(World(hd, failAt)))
  /\ UNCHANGED phase

CallShiftRight(failAt) ==
  /\ phase = "ready"
  /\ args' = <<>>
  /\ Returned("ShiftRight", <<>>, ShiftRight(World(hd, failAt)))
  /\ UNCHANGED phase

CallWriteChar(value, failAt) ==
  /\ phase = "ready"
  /\ args' = <<value>>
  /\ Returned("WriteChar", <<>>, WriteChar(World(hd, failAt), value))
  /\ UNCHANGED phase

CallWriteInstruction(value, failAt) ==
  /\ phase = "ready"
  /\ args' = <<value>>
  /\ Returned("WriteInstruction", <<>>, WriteInstruction(World(hd, failAt), value))
  /\ UNCHANGED phase

CallSetDDRamAddr(value, failAt) ==
  /\ phase = "ready"
  /\ args' = <<value>>
  /\ Returned("SetDDRamAddr", <<>>, SetDDRamAddr(World(hd, failAt), value))
  /\ UNCHANGED phase

CallBacklightOn(failAt) ==
  /\ phase = "ready"
  /\ args' = <<>>
  /\ Returned("BacklightOn", <<>>, BacklightOn(World(hd, failAt)))
  /\ UNCHANGED phase

CallBacklightOff(failAt) ==
  /\ phase = "ready"
  /\ args' = <<>>
  /\ Returned("BacklightOff", <<>>, BacklightOff(World(hd, failAt)))
  /\ UNCHANGED phase

CallFlagMethod(m, failAt) ==
  /\ phase = "ready"
  /\ args' = <<>>
  /\ Returned(m, <<>>, flagMethod(World(hd, failAt), m))
  /\ UNCHANGED phase

CallDisplayString(str, line, pos, failAt) ==
  /\ phase = "ready"
  /\ args' = <<str, line, pos>>
  /\ Returned("DisplayString", <<>>, DisplayString(World(hd, failAt), str, line, pos))
  /\ UNCHANGED phase

CallLoadCustomChars(chars, failAt) ==
  /\ phase = "ready"
  /\ args' = <<chars>>
  /\ Returned("LoadCustomChars", <<>>, LoadCustomChars(World(hd, failAt), chars))
  /\ UNCHANGED phase

CallWrite(buf, failAt) ==
  /\ phase = "ready"
  /\ args' = <<buf>>
  /\ Returned("Write", <<>>, Write(World(hd, failAt), buf))
  /\ UNCHANGED phase

Init ==
  /\ phase = "new"
  /\ hd = NoConn
  /\ op = "none"
  /\ modes = <<>>
  /\ args = <<>>
  /\ trace = <<>>
  /\ calls = <<>>
  /\ err = 0
  /\ ret = 0

(***************************************************************************)
(* Spec: the driver on a transport that never fails.  The callers pass     *)
(* the preset pin maps and at most MaxSetters of the setters CallerModes.  *)
(***************************************************************************)
CallerModes == {"UnderlineCursorOn", "OneLine"}

ModeLists == SeqUpTo(CallerModes, MaxSetters)

New == \E pm \in Presets, ms \in ModeLists : CallNew(pm, ms, 0)

SetModes == \E ms \in ModeLists : CallSetMode(ms, 0)

Clears == CallClear(0)

Homes == CallHome(0)

ShiftLefts == CallShiftLeft(0)

ShiftRights == CallShiftRight(0)

WriteChars == \E v \in DataBytes : CallWriteChar(v, 0)

WriteInstructions == \E v \in DataBytes : CallWriteInstruction(v, 0)

SetDDRamAddrs == CallSetDDRamAddr(67, 0)

BacklightOns == CallBacklightOn(0)

BacklightOffs == CallBacklightOff(0)

FlagMethods == \E m \in FlagMethod : CallFlagMethod(m, 0)

DisplayStrings == \E line \in {1, 2} : CallDisplayString(<<65, 66>>, line, 3, 0)

LoadCustomCharss == CallLoadCustomChars(BatteryChars, 0)

Next ==
  \/ New
  \/ SetModes
  \/ Clears
  \/ Homes
  \/ ShiftLefts
  \/ ShiftRights
  \/ WriteChars
  \/ WriteInstructions
  \/ SetDDRamAddrs
  \/ BacklightOns
  \/ BacklightOffs
  \/ FlagMethods
  \/ DisplayStrings
  \/ LoadCustomCharss

Spec == Init /\ [][Next]_vars

(***************************************************************************)
(* SpecFail: the driver on a transport that fails at any one bus write of  *)
(* a call, or at none.                                                     *)
(***************************************************************************)
FailNew == \E pm \in Presets, f \in 0..BusPerNew : CallNew(pm, <<>>, f)

FailSetMode ==
  \E ms \in {<<>>, <<"DisplayOff">>}, f \in 0..BusPerCommit : CallSetMode(ms, f)

FailClear == \E f \in 0..BusPerClear : CallClear(f)

FailWriteChar == \E f \in 0..BusPerWrite : CallWriteChar(65, f)

FailBacklightOn == \E f \in 0..1 : CallBacklightOn(f)

FailBacklightOff == \E f \in 0..1 : CallBacklightOff(f)

FailDisplayOn == \E f \in 0..BusPerWrite : CallFlagMethod("DisplayOn", f)

NextFail ==
  \/ FailNew
  \/ FailSetMode
  \/ FailClear
  \/ FailWriteChar
  \/ FailBacklightOn
  \/ FailBacklightOff
  \/ FailDisplayOn

SpecFail == Init /\ [][NextFail]_vars

(***************************************************************************)
(* SpecNew: construction alone, with every setter as a caller override,    *)
(* and with a pin map in which two signals share a position.               *)
(***************************************************************************)
\* a pin map a caller can write down: D4 and Backlight both at position 2
SharedPinMap ==
  [RS |-> 0, RW |-> 1, EN |-> 3, D4 |-> 2, D5 |-> 5, D6 |-> 6, D7 |-> 7,
   Backlight |-> 2, BLPolarity |-> Positive]

Overrides == SeqUpTo(ModeSetter, MaxOverrides)

Construct == \E pm \in Presets, ms \in Overrides, f \in 0..BusPerNew : CallNew(pm, ms, f)

ConstructShared == \E f \in 0..BusPerNew : CallNew(SharedPinMap, <<>>, f)

NextNew == Construct \/ ConstructShared

SpecNew == Init /\ [][NextNew]_vars

(***************************************************************************)
(* SpecEnc: write as a function of its inputs.  A ready connection with    *)
(* any of the pin maps PinMaps takes one WriteChar or WriteInstruction of  *)
(* any byte, on a transport that fails at any one of its bus writes or at  *)
(* none.                                                                   *)
(***************************************************************************)
InitEnc ==
  /\ phase = "ready"
  /\ \E pm \in PinMaps, bl \in BOOLEAN :
       hd = applyModes([NewConn(pm) EXCEPT !.backlight = bl], DefaultModes)
  /\ op = "none"
  /\ modes = <<>>
  /\ args = <<>>
  /\ trace = <<>>
  /\ calls = <<>>
  /\ err = 0
  /\ ret = 0

EncWriteChar ==
  /\ op = "none"
  /\ \E v \in Byte, f \in 0..BusPerWrite : CallWriteChar(v, f)

EncWriteInstruction ==
  /\ op = "none"
  /\ \E v \in Byte, f \in 0..BusPerWrite : CallWriteInstruction(v, f)

NextEnc == EncWriteChar \/ EncWriteInstruction

SpecEnc == InitEnc /\ [][NextEnc]_vars

(***************************************************************************)
(* SpecText: one DisplayString or LoadCustomChars on a connection as the   *)
(* constructor returns it, with texts of at most MaxLen characters (one of *)
(* them outside Latin-1), every line 0..5, and a transport that fails at   *)
(* one of the first bus writes of the call or at none.                     *)
(***************************************************************************)
Chars == {65, 66, 8364}

Texts == SeqUpTo(Chars, MaxLen)

Lines == 0..5

Columns == {0, 3}

\* glyphs whose 64 rows are all different
CountingChars == [g \in 1..8 |-> [r \in 1..8 |-> 8 * (g - 1) + (r - 1)]]

Glyphs == {BatteryChars, CountingChars}

InitText ==
  /\ phase = "ready"
  /\ \E pm \in Presets : hd = applyModes(NewConn(pm), DefaultModes)
  /\ op = "none"
  /\ modes = <<>>
  /\ args = <<>>
  /\ trace = <<>>
  /\ calls = <<>>
  /\ err = 0
  /\ ret = 0

TextDisplayString ==
  /\ op = "none"
  /\ \E str \in Texts, line \in Lines, pos \in Columns, f \in 0..(BusPerWrite + 1) :
       CallDisplayString(str, line, pos, f)

TextLoadCustomChars ==
  /\ op = "none"
  /\ \E chars \in Glyphs, f \in {0, 1, 65 * BusPerWrite} : CallLoadCustomChars(chars, f)

NextText == TextDisplayString \/ TextLoadCustomChars

SpecText == InitText /\ [][NextText]_vars

(***************************************************************************)
(* SpecModes: the mode setters as functions.  The connection starts with   *)
(* any mode fields the setters can produce from zero, and a step applies   *)
(* one setter to it, as the loop of SetMode does, without a commit.        *)
(***************************************************************************)
InitModes ==
  /\ phase = "ready"
  /\ \E e \in 0..3, d \in 0..7, f \in {0, 4, 8, 12, 16, 20, 24, 28} :
       hd = [NewConn(PCF8574PinMap) EXCEPT !.eMode = e, !.dMode = d, !.fMode = f]
  /\ op = "none"
  /\ modes = <<>>
  /\ args = <<>>
  /\ trace = <<>>
  /\ calls = <<>>
  /\ err = 0
  /\ ret = 0

ApplySetter ==
  \E m \in ModeSetter :
    /\ hd' = Apply(m, hd)
    /\ op' = "Apply"
    /\ modes' = <<m>>
    /\ UNCHANGED <<phase, args, trace, calls, err, ret>>

NextModes == ApplySetter

SpecModes == InitModes /\ [][NextModes]_vars

(***************************************************************************)
(* SpecAbort: one multi-step operation on a connection as the constructor  *)
(* returns it, on a transport that fails at any one bus write of the       *)
(* operation or at none.                                                   *)
(***************************************************************************)
\* the buffers given to Write
Buffers == SeqUpTo({65, 195}, MaxLen)

AbortDisplayString ==
  /\ op = "none"
  /\ \E f \in 0..(4 * BusPerWrite) : CallDisplayString(<<65, 66, 67>>, 2, 3, f)

AbortLoadCustomChars ==
  /\ op = "none"
  /\ \E f \in 0..(65 * BusPerWrite) : CallLoadCustomChars(CountingChars, f)

AbortSetMode ==
  /\ op = "none"
  /\ \E ms \in {<<>>, <<"DisplayOff", "OneLine">>}, f \in 0..BusPerCommit :
       CallSetMode(ms, f)

AbortClear ==
  /\ op = "none"
  /\ \E f \in 0..BusPerClear : CallClear(f)

AbortWrite ==
  /\ op = "none"
  /\ \E buf \in Buffers, f \in 0..(MaxLen * BusPerWrite) : CallWrite(buf, f)

NextAbort ==
  \/ AbortDisplayString
  \/ AbortLoadCustomChars
  \/ AbortSetMode
  \/ AbortClear
  \/ AbortWrite

SpecAbort == InitText /\ [][NextAbort]_vars

(***************************************************************************)
(* Addressing: on a ready connection of either preset, one DisplayString   *)
(* to any line and any column byte, or one SetDDRamAddr of any byte; the   *)
(* transport does not fail.                                                *)
(***************************************************************************)
AddrDisplayString ==
  /\ op = "none"
  /\ \E line \in Lines, pos \in Byte : CallDisplayString(<<65>>, line, pos, 0)

AddrSetDDRamAddr ==
  /\ op = "none"
  /\ \E value \in Byte : CallSetDDRamAddr(value, 0)

NextAddr == AddrDisplayString \/ AddrSetDDRamAddr

SpecAddr == InitText /\ [][NextAddr]_vars

(***************************************************************************)
(* What the properties read off a state.                                   *)
(***************************************************************************)
\* the WriteByte events of a trace, in order
BusEvents(tr) == SelectSeq(tr, LAMBDA e : e.k = "bus")

\* the bytes given to WriteByte, in order
BusBytes(tr) == LET b == BusEvents(tr) IN [i \in 1..Len(b) |-> b[i].v]

Bus == BusBytes(trace)

\* the nibble a controller wired by pm reads off the byte b
DataNibble(pm, b) ==
  Bit(b, pm.D4) + 2 * Bit(b, pm.D5) + 4 * Bit(b, pm.D6) + 8 * Bit(b, pm.D7)

\* the last call was one write of one byte
OneWrite == op \in {"WriteChar", "WriteInstruction"} /\ Len(calls) = 1

\* the three mode-set instructions carrying the fields of h
ModeCommit(h) ==
  << <<Or(lcdSetEntryMode, h.eMode), registerSelectLow>>,
     <<Or(lcdSetDisplayMode, h.dMode), registerSelectLow>>,
     <<Or(lcdSetFunctionMode, h.fMode), registerSelectLow>> >>

(***************************************************************************)
(* C1  For every byte v, register select and valid pin map, the bus bytes  *)
(* of the first frame of a write carry bits 4..7 of v at D4..D7 and those  *)
(* of the second frame carry bits 0..3 of v at the same positions; the     *)
(* high nibble comes first.  A write that is not cut short by the          *)
(* transport sends both frames.                                            *)
(***************************************************************************)
C1_FramesCarryNibbles ==
  (OneWrite /\ ValidPinMap(hd.PinMap)) =>
    LET v == calls[1][1]
    IN  /\ err = 0 => Len(Bus) = 6
        /\ \A i \in 1..Len(Bus) :
             DataNibble(hd.PinMap, Bus[i]) = IF i <= 3 THEN v \div 16 ELSE v % 16

C1_Witness ==
  /\ op = "WriteChar"
  /\ err = 0
  /\ calls = << <<195, 1>> >>
  /\ hd.PinMap = Rotate(MJKDZPinMap, 1, TRUE, Positive)
  /\ Len(Bus) = 6
  /\ DataNibble(hd.PinMap, Bus[1]) = 12
  /\ DataNibble(hd.PinMap, Bus[4]) = 3

(***************************************************************************)
(* C2  When the transport does not fail, a write of one byte is exactly    *)
(* six bus writes: the high frame with enable low, with enable high, with  *)
(* enable low, then the low frame likewise; the three bytes of a strobe    *)
(* differ in the bit at PinMap.EN and in no other bit.                     *)
(***************************************************************************)
C2_SixWritesInStrobeOrder ==
  (OneWrite /\ err = 0) =>
    LET v == calls[1][1]
        pm == hd.PinMap
    IN  /\ Len(Bus) = 6
        /\ \A s \in {0, 3} :
             /\ Bus[s + 1] = Bus[s + 3]
             /\ Bit(Bus[s + 1], pm.EN) = 0
             /\ Bit(Bus[s + 2], pm.EN) = 1
             /\ \A p \in (0..7) \ {pm.EN} : Bit(Bus[s + 2], p) = Bit(Bus[s + 1], p)
        /\ DataNibble(pm, Bus[1]) = v \div 16
        /\ DataNibble(pm, Bus[4]) = v % 16

C2_Witness ==
  /\ op = "WriteInstruction"
  /\ err = 0
  /\ hd.PinMap = PCF8574PinMap
  /\ hd.backlight
  /\ calls = << <<195, 0>> >>
  /\ Bus = <<200, 204, 200, 56, 60, 56>>

(***************************************************************************)
(* C3  WriteChar asserts the bit at PinMap.RS in all six bus writes;       *)
(* WriteInstruction and every call built on it (construction, SetMode,     *)
(* the per-flag methods, Clear, Home, the shifts, SetDDRamAddr and the     *)
(* address instruction that opens DisplayString and LoadCustomChars)       *)
(* leave it low in all of theirs; for the same byte the bus bytes of       *)
(* WriteChar and of WriteInstruction agree in every other bit.             *)
(***************************************************************************)
InstructionCalls ==
  {"New", "SetMode", "Clear", "Home", "ShiftLeft", "ShiftRight", "SetDDRamAddr",
   "WriteInstruction"} \cup FlagMethod

C3_RegisterSelectByCall ==
  LET pm == hd.PinMap
  IN  /\ op = "WriteChar" =>
           LET ins == BusBytes(WriteInstruction(World(hd, 0), calls[1][1]).trace)
           IN  /\ Len(Bus) = 6
               /\ \A i \in 1..6 :
                    /\ Bit(Bus[i], pm.RS) = 1
                    /\ \A q \in (0..7) \ {pm.RS} : Bit(Bus[i], q) = Bit(ins[i], q)
      /\ op \in InstructionCalls =>
           /\ Len(Bus) = 6 * Len(calls)
           /\ \A i \in 1..Len(Bus) : Bit(Bus[i], pm.RS) = 0
      /\ op \in {"DisplayString", "LoadCustomChars"} =>
           /\ Len(Bus) = 6 * Len(calls)
           /\ \A i \in 1..Len(Bus) : Bit(Bus[i], pm.RS) = IF i <= 6 THEN 0 ELSE 1

C3_Witness ==
  /\ op = "WriteChar"
  /\ hd.PinMap = MJKDZPinMap
  /\ calls = << <<65, 1>> >>
  /\ Len(Bus) = 6
  /\ Bit(Bus[1], 6) = 1

(***************************************************************************)
(* C4  For a valid pin map, every byte write puts on the bus has each of   *)
(* its 8 bits equal to the signal mapped there: D4..D7 the bits of the     *)
(* current nibble, RS the register select, Backlight the flag against the  *)
(* polarity, EN high in the middle write of a strobe only, RW always 0.    *)
(***************************************************************************)
\* the level of the signal pm maps to position p, in the i-th bus write of
\* a write of v with register select rs and backlight flag bl
Signal(pm, p, v, rs, bl, i) ==
  LET nib == IF i <= 3 THEN v \div 16 ELSE v % 16
  IN  CASE p = pm.D4 -> Bit(nib, 0)
        [] p = pm.D5 -> Bit(nib, 1)
        [] p = pm.D6 -> Bit(nib, 2)
        [] p = pm.D7 -> Bit(nib, 3)
        [] p = pm.RS -> rs
        [] p = pm.Backlight -> IF bl = pm.BLPolarity THEN 1 ELSE 0
        [] p = pm.EN -> IF i \in {2, 5} THEN 1 ELSE 0
        [] p = pm.RW -> 0

C4_OnlyMappedSignals ==
  (OneWrite /\ ValidPinMap(hd.PinMap)) =>
    \A i \in 1..Len(Bus), p \in 0..7 :
      Bit(Bus[i], p) = Signal(hd.PinMap, p, calls[1][1], calls[1][2], hd.backlight, i)

C4_Witness ==
  /\ op = "WriteChar"
  /\ err = 0
  /\ hd.PinMap = MJKDZPinMap
  /\ ~hd.backlight
  /\ calls = << <<255, 1>> >>
  /\ Bus = <<207, 223, 207, 207, 223, 207>>

(***************************************************************************)
(* C5  On a connection, every bus byte of every call that goes through     *)
(* write has the bit at PinMap.Backlight set exactly when the backlight    *)
(* flag equals the polarity; the flag is true after construction and no    *)
(* call but BacklightOn and BacklightOff changes it.                       *)
(***************************************************************************)
BacklightInFrames ==
  (phase = "ready" /\ op \notin {"none", "BacklightOn", "BacklightOff"}) =>
    /\ Len(Bus) > 0
    /\ \A i \in 1..Len(Bus) :
         Bit(Bus[i], hd.PinMap.Backlight) =
           IF hd.backlight = hd.PinMap.BLPolarity THEN 1 ELSE 0
    /\ op = "New" => hd.backlight

BacklightChangedOnlyByItsCalls ==
  (phase = "ready" /\ hd'.backlight # hd.backlight) =>
    op' \in {"BacklightOn", "BacklightOff"}

C5_BacklightBit == [](BacklightInFrames) /\ [][BacklightChangedOnlyByItsCalls]_vars

C5_Witness ==
  /\ op = "WriteChar"
  /\ hd.PinMap = MJKDZPinMap
  /\ ~hd.backlight
  /\ err = 0
  /\ \A i \in 1..6 : Bit(Bus[i], 7) = 1

(***************************************************************************)
(* C6  When the k-th bus write of a write fails, it is the last bus write  *)
(* of the call, the call returns the error of that bus write, and the bus  *)
(* writes made are the first k of the six of an undisturbed write, once    *)
(* each; a failure in the first frame leaves the second frame unsent.      *)
(***************************************************************************)
C6_FailureStopsTheWrite ==
  OneWrite =>
    LET ev == BusEvents(trace)
        full == BusBytes(write(World(hd, 0), calls[1][1], calls[1][2]).trace)
    IN  /\ \A i \in 1..Len(ev) : ~ev[i].ok => (i = Len(ev) /\ err = i)
        /\ (\A i \in 1..Len(ev) : ev[i].ok) => (err = 0 /\ Len(ev) = 6)
        /\ Len(ev) <= 6
        /\ \A i \in 1..Len(ev) : ev[i].v = full[i]
        /\ err \in 1..3 => Len(ev) <= 3

C6_Witness ==
  /\ op = "WriteInstruction"
  /\ err = 2
  /\ Len(Bus) = 2
  /\ ~BusEvents(trace)[2].ok

(***************************************************************************)
(* C7  On a transport that never fails, a SetMode call leaves the          *)
(* connection with every given setter applied, left to right, and makes    *)
(* exactly three instruction writes: entry-mode-set, display-mode-set,     *)
(* function-mode-set, each 'opcode | field' with the field as it is after  *)
(* the setters; the setters themselves add no bus write (18 in all).       *)
(***************************************************************************)
RECURSIVE SettersApplied(_, _)
SettersApplied(h, ms) ==
  IF ms = <<>> THEN h ELSE SettersApplied(Apply(Head(ms), h), Tail(ms))

SetModeStep ==
  op' = "SetMode" =>
    /\ err' = 0
    /\ hd' = SettersApplied(hd, modes')
    /\ calls' = ModeCommit(hd')
    /\ Len(BusBytes(trace')) = 3 * 6

C7_SetModeCommitsInOrder == [][SetModeStep]_vars

C7_Witness ==
  /\ op = "SetMode"
  /\ modes = <<"OneLine", "UnderlineCursorOn">>
  /\ calls = << <<6, 0>>, <<14, 0>>, <<32, 0>> >>
  /\ Len(Bus) = 18

(***************************************************************************)
(* C8  On a transport that never fails, Clear on a ready connection makes  *)
(* the instruction write 0x01 and then, with nothing in between, the three *)
(* mode-set writes carrying the fields held before the call; these are     *)
(* the fields the connection holds after it.                               *)
(***************************************************************************)
ClearStep ==
  op' = "Clear" =>
    /\ err' = 0
    /\ calls' = << <<lcdClearDisplay, registerSelectLow>> >> \o ModeCommit(hd)
    /\ ModeCommit(hd') = ModeCommit(hd)
    /\ Len(BusBytes(trace')) = 4 * 6

C8_ClearRecommits == [][ClearStep]_vars

C8_Witness ==
  /\ op = "Clear"
  /\ err = 0
  /\ calls = << <<1, 0>>, <<7, 0>>, <<14, 0>>, <<32, 0>> >>
  /\ hd.eMode = 3 /\ hd.dMode = 6 /\ hd.fMode = 0

(***************************************************************************)
(* C9  Clear, whether it succeeds or fails, leaves the three mode fields   *)
(* and the backlight flag as they were: every mode query accessor answers  *)
(* after the call what it answered before.                                 *)
(***************************************************************************)
Accessors(h) ==
  <<EntryIncrementEnabled(h), EntryShiftEnabled(h), DisplayEnabled(h),
    CursorEnabled(h), BlinkEnabled(h), EightBitModeEnabled(h), TwoLineEnabled(h)>>

ClearKeepsState ==
  op' = "Clear" =>
    /\ Accessors(hd') = Accessors(hd)
    /\ <<hd'.eMode, hd'.dMode, hd'.fMode>> = <<hd.eMode, hd.dMode, hd.fMode>>
    /\ hd'.backlight = hd.backlight

C9_ClearKeepsModes == [][ClearKeepsState]_vars

C9_Witness ==
  /\ op = "Clear"
  /\ err = 9
  /\ DisplayEnabled(hd)
  /\ ~hd.backlight
  /\ Len(calls) = 2

(***************************************************************************)
(* C10  On a transport that never fails, construction writes, in order     *)
(* and with nothing in between: reset, reset, reset, switch to 4 bit,      *)
(* clear display, then one mode commit entry, display, function carrying   *)
(* the defaults merged with the caller's overrides.                        *)
(***************************************************************************)
C10_ConstructionIsLinear ==
  (op = "New" /\ err = 0) =>
    calls = << <<3, 0>>, <<3, 0>>, <<3, 0>>, <<2, 0>>, <<lcdClearDisplay, 0>> >>
              \o ModeCommit(hd)

\* what construction does write: Clear re-commits the still zero fields
\* before the defaults are applied and committed
C10_Observed ==
  /\ op = "New"
  /\ err = 0
  /\ modes = <<>>
  /\ calls = << <<3, 0>>, <<3, 0>>, <<3, 0>>, <<2, 0>>, <<1, 0>>,
                <<4, 0>>, <<8, 0>>, <<32, 0>>,
                <<6, 0>>, <<12, 0>>, <<40, 0>> >>

(***************************************************************************)
(* C11  During construction each of the three reset steps puts 0011 on     *)
(* D7..D4 as one nibble frame (one strobe) and the switch to 4 bit puts    *)
(* 0010 as one nibble frame, so the nibbles the controller latches start   *)
(* 0011, 0011, 0011, 0010 and the clear display byte follows.              *)
(***************************************************************************)
\* the nibble latched at each strobe: the one on the byte with enable high
Latched(pm, bus) == [i \in 1..(Len(bus) \div 3) |-> DataNibble(pm, bus[3 * i - 1])]

C11_ResetsAreSingleNibbles ==
  (op = "New" /\ err = 0 /\ ValidPinMap(hd.PinMap)) =>
    SubSeq(Latched(hd.PinMap, Bus), 1, 6) = <<3, 3, 3, 2, 0, 1>>

\* what construction latches: every step is a full byte, high nibble 0000 first
C11_Observed ==
  /\ op = "New"
  /\ err = 0
  /\ hd.PinMap = PCF8574PinMap
  /\ SubSeq(Latched(hd.PinMap, Bus), 1, 10) = <<0, 3, 0, 3, 0, 3, 0, 2, 0, 1>>
  /\ SubSeq(calls, 1, 4) = << <<3, 0>>, <<3, 0>>, <<3, 0>>, <<2, 0>> >>

(***************************************************************************)
(* C12  After a successful construction the mode flags are the fixed       *)
(* defaults (increment, no shift, display on, no cursor, no blink, 4 bit,  *)
(* two lines, 5x8) with the caller's setters applied after them, left to   *)
(* right: an override changes its own flag only and wins over the default. *)
(***************************************************************************)
DefaultFlags ==
  [EntryIncrement |-> TRUE, EntryShift |-> FALSE, Display |-> TRUE,
   Cursor |-> FALSE, Blink |-> FALSE, EightBit |-> FALSE, TwoLine |-> TRUE,
   Dots5x10 |-> FALSE]

\* the flag a setter is about, and the value it gives it
SetterFlag(m) ==
  CASE m = "EntryDecrement" -> <<"EntryIncrement", FALSE>>
    [] m = "EntryIncrement" -> <<"EntryIncrement", TRUE>>
    [] m = "EntryShiftOff" -> <<"EntryShift", FALSE>>
    [] m = "EntryShiftOn" -> <<"EntryShift", TRUE>>
    [] m = "DisplayOff" -> <<"Display", FALSE>>
    [] m = "DisplayOn" -> <<"Display", TRUE>>
    [] m = "UnderlineCursorOff" -> <<"Cursor", FALSE>>
    [] m = "UnderlineCursorOn" -> <<"Cursor", TRUE>>
    [] m = "BlinkCursorOff" -> <<"Blink", FALSE>>
    [] m = "BlinkCursorOn" -> <<"Blink", TRUE>>
    [] m = "FourBitMode" -> <<"EightBit", FALSE>>
    [] m = "EightBitMode" -> <<"EightBit", TRUE>>
    [] m = "OneLine" -> <<"TwoLine", FALSE>>
    [] m = "TwoLine" -> <<"TwoLine", TRUE>>
    [] m = "Dots5x8" -> <<"Dots5x10", FALSE>>
    [] m = "Dots5x10" -> <<"Dots5x10", TRUE>>

\* the flags of a connection, read through the accessors (the glyph size
\* has no accessor: its bit is read off fMode)
Flags(h) ==
  [EntryIncrement |-> EntryIncrementEnabled(h), EntryShift |-> EntryShiftEnabled(h),
   Display |-> DisplayEnabled(h), Cursor |-> CursorEnabled(h),
   Blink |-> BlinkEnabled(h), EightBit |-> EightBitModeEnabled(h),
   TwoLine |-> TwoLineEnabled(h), Dots5x10 |-> Bit(h.fMode, 2) = 1]

RECURSIVE FlagsAfter(_, _)
FlagsAfter(f, ms) ==
  IF ms = <<>> THEN f
  ELSE FlagsAfter([f EXCEPT ![SetterFlag(Head(ms))[1]] = SetterFlag(Head(ms))[2]],
                  Tail(ms))

C12_DefaultsThenOverrides ==
  (op = "New" /\ err = 0) =>
    /\ Flags(hd) = FlagsAfter(DefaultFlags, modes)
    /\ modes = <<>> =>
         Accessors(hd) = <<TRUE, FALSE, TRUE, FALSE, FALSE, FALSE, TRUE>>
    /\ hd.eMode \in 0..3 /\ hd.dMode \in 0..7 /\ hd.fMode \in {0, 4, 8, 12, 16, 20, 24, 28}

C12_Witness ==
  /\ op = "New"
  /\ err = 0
  /\ modes = <<"UnderlineCursorOn">>
  /\ Accessors(hd) = <<TRUE, FALSE, TRUE, TRUE, FALSE, FALSE, TRUE>>
  /\ <<hd.eMode, hd.dMode, hd.fMode>> = <<2, 6, 8>>

(***************************************************************************)
(* C13  If any bus write of construction fails, NewHd44780I2c returns the  *)
(* error and nil; a connection is returned only when every bus write of    *)
(* the whole initialisation succeeded.                                     *)
(***************************************************************************)
\* some WriteByte of the last call was refused by the transport
SomeBusWriteFailed == \E i \in 1..Len(trace) : trace[i].k = "bus" /\ ~trace[i].ok

C13_FailureReturnsNil ==
  op = "New" =>
    /\ phase \in {"ready", "failed"}
    /\ phase = "failed" <=> SomeBusWriteFailed
    /\ phase = "failed" => hd = NoConn /\ err # 0
    /\ phase = "ready" => hd # NoConn /\ err = 0 /\ Len(Bus) = BusPerNew

\* the very last bus write of the mode commit fails
C13_Witness ==
  /\ op = "New"
  /\ phase = "failed"
  /\ hd = NoConn
  /\ err = BusPerNew
  /\ Len(Bus) = BusPerNew
  /\ Len(calls) = 11

(***************************************************************************)
(* C14  If a bus write of the third reset step fails during construction,  *)
(* construction stops there: the failed write is the last bus write, no    *)
(* write of the 4 bit switch, of clear display or of a mode set follows,   *)
(* the step is not sent again, and the constructor returns the error.      *)
(***************************************************************************)
\* the bus writes the transport refused, by their position among the bus writes
FailedWrites == {i \in 1..Len(Bus) : ~BusEvents(trace)[i].ok}

\* the bus writes of the third write call of construction
ThirdReset == (2 * BusPerWrite + 1)..(3 * BusPerWrite)

C14_ThirdResetFailureAborts ==
  (op = "New" /\ FailedWrites \cap ThirdReset # {}) =>
    /\ \E k \in ThirdReset : FailedWrites = {k} /\ Len(Bus) = k /\ err = k
    /\ ~trace[Len(trace)].ok
    /\ calls = << <<3, 0>>, <<3, 0>>, <<3, 0>> >>
    /\ phase = "failed"

\* the first bus write of the third reset is refused
C14_Witness ==
  /\ op = "New"
  /\ phase = "failed"
  /\ FailedWrites = {13}
  /\ Len(Bus) = 13
  /\ calls = << <<3, 0>>, <<3, 0>>, <<3, 0>> >>

(***************************************************************************)
(* C15  DisplayString(text, line, column) with line in 0..3 issues as its  *)
(* first instruction 0x80 | (base(line) + column), base(0) = 0x00,         *)
(* base(1) = 0x40, base(2) = 0x10, base(3) = 0x54; line 1, column 3 gives  *)
(* the instruction byte 0xC3.                                              *)
(***************************************************************************)
RowBase(line) ==
  CASE line = 0 -> 0
    [] line = 1 -> 64
    [] line = 2 -> 16
    [] line = 3 -> 84

C15_RowAddress ==
  (op = "DisplayString" /\ args[2] \in 0..3) =>
    /\ Len(calls) >= 1
    /\ calls[1] = <<Or(128, (RowBase(args[2]) + args[3]) % 256), 0>>

\* what the code sends for line 1, column 3: the address of the first row
C15_Observed ==
  /\ op = "DisplayString"
  /\ args = << <<65, 66>>, 1, 3 >>
  /\ err = 0
  /\ calls = << <<131, 0>>, <<65, 1>>, <<66, 1>> >>

(***************************************************************************)
(* C16  DisplayString with a line outside the supported range (line 5)     *)
(* returns a failure and performs no bus write; it never falls back to a   *)
(* default row address.                                                    *)
(***************************************************************************)
C16_InvalidLineRejected ==
  (op = "DisplayString" /\ args[2] = 5) => (err # 0 /\ Bus = <<>> /\ calls = <<>>)

\* what the code does for line 5: it addresses 0x00 and writes the text
C16_Observed ==
  /\ op = "DisplayString"
  /\ args = << <<65, 66>>, 5, 3 >>
  /\ err = 0
  /\ calls = << <<128, 0>>, <<65, 1>>, <<66, 1>> >>
  /\ Len(Bus) = 3 * BusPerWrite

(***************************************************************************)
(* C17  Constructing with a pin map in which two signals share a bit       *)
(* position returns a failure before any bus write; no connection ever     *)
(* exists whose pin map positions are not pairwise distinct.               *)
(***************************************************************************)
C17_SharedPositionRejected ==
  /\ (op = "New" /\ ~ValidPinMap(args[1])) => (phase = "failed" /\ err # 0 /\ Bus = <<>>)
  /\ phase = "ready" => ValidPinMap(hd.PinMap)

\* what the code does: the connection is returned, and with the backlight on
\* the shared bit makes D4 read 1 in every frame
C17_Observed ==
  /\ op = "New"
  /\ phase = "ready"
  /\ err = 0
  /\ hd.PinMap = SharedPinMap
  /\ Len(Bus) = BusPerNew
  /\ SubSeq(Latched(hd.PinMap, Bus), 1, 10) = <<1, 3, 1, 3, 1, 3, 1, 3, 1, 1>>

(***************************************************************************)
(* C18  On a transport that never fails, DisplayString with a text of n    *)
(* characters makes exactly one instruction write, the set address         *)
(* instruction, then exactly n data writes, one per character in text      *)
(* order, each with register select high and each sent as a high and a low *)
(* nibble frame; no address instruction comes between the characters.      *)
(***************************************************************************)
C18_AddressOnceThenText ==
  (op = "DisplayString" /\ err = 0) =>
    LET str == args[1]
        pm == hd.PinMap
        nib == Latched(pm, Bus)
    IN  /\ Len(calls) = Len(str) + 1
        /\ calls[1][2] = registerSelectLow
        /\ Bit(calls[1][1], 7) = 1
        /\ \A i \in 1..Len(str) : calls[i + 1] = <<str[i] % 256, registerSelectHigh>>
        /\ Len(Bus) = BusPerWrite * (Len(str) + 1)
        /\ \A i \in 1..Len(calls) :
             /\ nib[2 * i - 1] = calls[i][1] \div 16
             /\ nib[2 * i] = calls[i][1] % 16
             /\ \A j \in (BusPerWrite * (i - 1) + 1)..(BusPerWrite * i) :
                  Bit(Bus[j], pm.RS) = calls[i][2]

C18_Witness ==
  /\ op = "DisplayString"
  /\ err = 0
  /\ args = << <<66, 8364, 65>>, 2, 3 >>
  /\ calls = << <<195, 0>>, <<66, 1>>, <<172, 1>>, <<65, 1>> >>
  /\ Len(Bus) = 4 * BusPerWrite
  /\ Latched(hd.PinMap, Bus) = <<12, 3, 4, 2, 10, 12, 4, 1>>

(***************************************************************************)
(* C19  On a transport that never fails, LoadCustomChars makes exactly one *)
(* instruction write, set CGRAM address at the base 0x40, then exactly 64  *)
(* data writes in the order glyph 0 row 0, glyph 0 row 1, ..., glyph 7     *)
(* row 7, with no addressing instruction between them.                     *)
(***************************************************************************)
C19_GlyphsInOrder ==
  (op = "LoadCustomChars" /\ err = 0) =>
    /\ Len(calls) = 65
    /\ calls[1] = <<64, registerSelectLow>>
    /\ \A g \in 1..8, r \in 1..8 :
         calls[1 + 8 * (g - 1) + r] = <<args[1][g][r], registerSelectHigh>>
    /\ Len(Bus) = 65 * BusPerWrite

C19_Witness ==
  /\ op = "LoadCustomChars"
  /\ err = 0
  /\ args[1] = BatteryChars
  /\ Len(calls) = 65
  /\ calls[1] = <<64, 0>>
  /\ calls[2] = <<14, 1>>
  /\ calls[9] = <<31, 1>>
  /\ calls[10] = <<14, 1>>
  /\ calls[15] = <<17, 1>>
  /\ calls[16] = <<31, 1>>
  /\ calls[65] = <<0, 1>>
  /\ Len(Bus) = 390

(***************************************************************************)
(* C20  Every mode setter is idempotent: applied to what it produced it    *)
(* changes nothing; and a setter gives its own flag its value and leaves   *)
(* every other flag, the pin map and the backlight flag as they were.      *)
(***************************************************************************)
SetterStep ==
  op' = "Apply" =>
    LET m == modes'[1]
    IN  /\ Apply(m, hd') = hd'
        /\ Flags(hd') = [Flags(hd) EXCEPT ![SetterFlag(m)[1]] = SetterFlag(m)[2]]
        /\ hd'.eMode \in 0..3 /\ hd'.dMode \in 0..7
        /\ hd'.fMode \in {0, 4, 8, 12, 16, 20, 24, 28}
        /\ hd'.PinMap = hd.PinMap
        /\ hd'.backlight = hd.backlight

C20_SettersIdempotent == [][SetterStep]_vars

\* EntryShiftOn applied where the shift flag was already on
C20_Witness ==
  /\ op = "Apply"
  /\ modes = <<"EntryShiftOn">>
  /\ <<hd.eMode, hd.dMode, hd.fMode>> = <<3, 4, 8>>

(***************************************************************************)
(* C21  After any sequence of construction, SetMode, the per-flag methods  *)
(* and Clear, the entry field has no bit outside 0x03, the display field   *)
(* none outside 0x07 and the function field none outside 0x1C, and every   *)
(* committed mode instruction has its opcode prefix as its highest set     *)
(* bit: entry mode set in 0x04..0x07, display mode set in 0x08..0x0F,      *)
(* function mode set in 0x20..0x3F.                                        *)
(***************************************************************************)
FieldsInMask(h) ==
  /\ And(h.eMode, Not(3)) = 0
  /\ And(h.dMode, Not(7)) = 0
  /\ And(h.fMode, Not(28)) = 0

CommitRanges == <<4..7, 8..15, 32..63>>

\* the instructions of a call that commits modes on a transport that does
\* not fail: for each write, the values its byte may have
ExpectedInstructions(name) ==
  CASE name = "SetMode" -> CommitRanges
    [] name = "Clear" -> <<{1}>> \o CommitRanges
    [] name = "New" -> <<{3}, {3}, {3}, {2}, {1}>> \o CommitRanges \o CommitRanges
    [] name \in {"EntryShiftOn", "EntryShiftOff"} -> <<4..7>>
    [] OTHER -> <<8..15>>

C21_ModeFieldsStayInMask ==
  /\ phase = "ready" => FieldsInMask(hd)
  /\ (op \in {"SetMode", "Clear", "New"} \cup FlagMethod /\ err = 0) =>
       /\ Len(calls) = Len(ExpectedInstructions(op))
       /\ \A i \in 1..Len(calls) :
            /\ calls[i][1] \in ExpectedInstructions(op)[i]
            /\ calls[i][2] = registerSelectLow

\* a SetMode that turns the cursor on and selects one line, after others
C21_Witness ==
  /\ op = "SetMode"
  /\ modes = <<"UnderlineCursorOn", "OneLine">>
  /\ calls = << <<6, 0>>, <<14, 0>>, <<32, 0>> >>
  /\ <<hd.eMode, hd.dMode, hd.fMode>> = <<2, 6, 0>>

(***************************************************************************)
(* C22  In DisplayString, LoadCustomChars, SetMode, Clear and Write the    *)
(* first bus write the transport refuses ends the call: it is the only     *)
(* refused write and the last event of the call (no bus write and no       *)
(* delay follows it), and the call returns the error of that write.        *)
(***************************************************************************)
MultiWriteCalls == {"DisplayString", "LoadCustomChars", "SetMode", "Clear", "Write"}

C22_FirstFailureEndsTheCall ==
  op \in MultiWriteCalls =>
    LET ev == BusEvents(trace)
        n == Len(ev)
    IN  /\ \A i \in 1..n : ~ev[i].ok => (i = n /\ err = i)
        /\ err # 0 => 
             /\ n = err
             /\ ~ev[n].ok
             /\ trace[Len(trace)] = ev[n]
        /\ (\A i \in 1..n : ev[i].ok) => err = 0

\* the clear of Clear went through, the second write of the commit did not
C22_Witness ==
  /\ op = "Clear"
  /\ FailedWrites = {BusPerWrite + 8}
  /\ Len(Bus) = BusPerWrite + 8
  /\ err = BusPerWrite + 8
  /\ Len(calls) = 3

(***************************************************************************)
(* C23  Every clear display (0x01) and every return home (0x02)            *)
(* instruction, whether Clear, Home or construction issues it, is followed *)
(* by the long settle delay of about 1.6 ms before the next bus write of   *)
(* the call or its return; the 40 us settle alone never follows them.      *)
(***************************************************************************)
\* the positions in a trace of its bus writes, in order
BusAt(tr) == SelectSeq([i \in 1..Len(tr) |-> i], LAMBDA i : tr[i].k = "bus")

\* the time slept in the events a..b of a trace, in microseconds
RECURSIVE SleptIn(_, _, _)
SleptIn(tr, a, b) == IF a > b THEN 0 ELSE tr[a].v + SleptIn(tr, a + 1, b)

\* the time slept between the k-th bus write of a trace and the next one,
\* or the end of the trace; for k = 0, before the first bus write
SleptAfter(tr, k) ==
  LET at == BusAt(tr)
  IN  SleptIn(tr, IF k = 0 THEN 1 ELSE at[k] + 1,
                  IF k < Len(at) THEN at[k + 1] - 1 ELSE Len(tr))

C23_LongDelayAfterClearAndHome ==
  (op \in {"Clear", "Home", "New"} /\ err = 0) =>
    \A i \in 1..Len(calls) :
      calls[i] \in {<<lcdClearDisplay, registerSelectLow>>,
                    <<lcdReturnHome, registerSelectLow>>} =>
        SleptAfter(trace, BusPerWrite * i) >= clearDelay

\* what Home does: it returns after the ordinary settle of write
C23_Observed ==
  /\ op = "Home"
  /\ err = 0
  /\ calls = << <<lcdReturnHome, registerSelectLow>> >>
  /\ Len(Bus) = BusPerWrite
  /\ SleptAfter(trace, BusPerWrite) = writeDelay

(***************************************************************************)
(* C24  During construction at least 15 ms are slept before the first bus  *)
(* write, at least 4.1 ms between the last bus write of the first reset    *)
(* step and the first of the second, and at least 100 us between the last  *)
(* bus write of the second reset step and the first of the third.          *)
(***************************************************************************)
C24_ConstructionDelays ==
  op = "New" =>
    /\ Len(Bus) >= 1 => SleptAfter(trace, 0) >= 15000
    /\ Len(Bus) > BusPerWrite => SleptAfter(trace, BusPerWrite) >= 4100
    /\ Len(Bus) > 2 * BusPerWrite => SleptAfter(trace, 2 * BusPerWrite) >= 100

\* a construction that got as far as the third reset step, which failed
C24_Witness ==
  /\ op = "New"
  /\ err = 2 * BusPerWrite + 1
  /\ SleptAfter(trace, 0) = powerDelay + pulseDelay
  /\ SleptAfter(trace, BusPerWrite) = writeDelay + initDelay1 + pulseDelay
  /\ SleptAfter(trace, 2 * BusPerWrite) = writeDelay + initDelay2 + pulseDelay

(***************************************************************************)
(* C25  In every strobe at least 1 us is slept before each of the three    *)
(* bus writes, the byte with enable high is held for at least about        *)
(* 200 us before the byte with enable low is written, and at least about   *)
(* 30 us pass after the strobe before the next frame begins.               *)
(***************************************************************************)
C25_StrobeTiming ==
  (OneWrite /\ err = 0) =>
    /\ \A k \in 1..Len(Bus) : SleptAfter(trace, k - 1) >= 1
    /\ \A k \in {2, 5} : SleptAfter(trace, k) >= 200
    /\ SleptAfter(trace, 3) >= 30

\* what write does: one pulseDelay before every bus write and nothing else
\* until the settle that ends the call
C25_Observed ==
  /\ op = "WriteChar"
  /\ err = 0
  /\ Len(Bus) = BusPerWrite
  /\ \A k \in 0..(BusPerWrite - 1) : SleptAfter(trace, k) = pulseDelay
  /\ SleptAfter(trace, BusPerWrite) = writeDelay

(***************************************************************************)
(* C26  For every pin map, both presets included, the one byte BacklightOn *)
(* writes has the bit at PinMap.Backlight at the on level of BLPolarity,   *)
(* the one byte BacklightOff writes has it at the off level, and neither   *)
(* byte has the bit at PinMap.EN set: after the call the backlight pin     *)
(* agrees with the backlight flag.                                         *)
(***************************************************************************)
C26_BacklightByteFollowsPinMap ==
  (op \in {"BacklightOn", "BacklightOff"} /\ err = 0) =>
    /\ Len(Bus) = 1
    /\ hd.backlight = (op = "BacklightOn")
    /\ Bit(Bus[1], hd.PinMap.Backlight) =
         IF hd.backlight = hd.PinMap.BLPolarity THEN 1 ELSE 0
    /\ Bit(Bus[1], hd.PinMap.EN) = 0

\* what BacklightOff writes on the active-low preset: 0x00, whose bit 7 is
\* the level that lights the backlight
C26_Observed ==
  /\ op = "BacklightOff"
  /\ err = 0
  /\ hd.PinMap = MJKDZPinMap
  /\ ~hd.backlight
  /\ Bus = <<lcdBacklightOff>>
  /\ Bit(Bus[1], MJKDZPinMap.Backlight) = 0
  /\ MJKDZPinMap.BLPolarity = Negative

(***************************************************************************)
(* C27  For every line and every column byte 0..255, the first instruction *)
(* of DisplayString is a set DDRAM address instruction: bit 7 of its byte  *)
(* is set and the byte is 0x80 | address with address <= 0x7F; the 8 bit   *)
(* sum of 0x80, the row base and the column never wraps into another       *)
(* opcode such as 0x00 or clear display 0x01.                              *)
(***************************************************************************)
C27_AddressKeepsItsOpcode ==
  op = "DisplayString" =>
    /\ Len(calls) >= 1
    /\ calls[1][2] = registerSelectLow
    /\ Bit(calls[1][1], 7) = 1
    /\ \E address \in 0..127 : calls[1][1] = Or(lcdSetDDRamAddr, address)
    /\ calls[1][1] \notin {0, lcdClearDisplay}

\* what the code sends for line 1, column 129: 0x80 + 0x81 wraps to 0x01,
\* the clear display instruction
C27_Observed ==
  /\ op = "DisplayString"
  /\ args = << <<65>>, 1, 129 >>
  /\ err = 0
  /\ calls = << <<lcdClearDisplay, registerSelectLow>>, <<65, registerSelectHigh>> >>

(***************************************************************************)
(* C28  Write(buf) returns (len(buf), nil) when every byte went through;   *)
(* when the write of the byte at index i fails it returns the error and    *)
(* the count i, the number of bytes written before the failing one.        *)
(***************************************************************************)
C28_WriteCountsBytesWritten ==
  op = "Write" =>
    /\ err = 0 => ret = Len(args[1])
    /\ err # 0 => ret = (err - 1) \div BusPerWrite

\* what Write returns when the byte at index 1 fails: maxInt(1 - 1, 0) = 0,
\* though the byte at index 0 was written
C28_Observed ==
  /\ op = "Write"
  /\ args = << <<65, 195, 65>> >>
  /\ err = BusPerWrite + 1
  /\ calls = << <<65, registerSelectHigh>>, <<195, registerSelectHigh>> >>
  /\ ret = 0

(***************************************************************************)
(* C29  SetMode and the per-flag methods apply their setters to the        *)
(* fields before any bus write and do not undo them when the commit        *)
(* fails: after the call, failed or not, the fields are the setters        *)
(* applied to the fields before it; a later SetMode() or Clear() that      *)
(* succeeds sends the fields so retained.                                  *)
(***************************************************************************)
SettersSurviveFailure ==
  /\ op' = "SetMode" => hd' = SettersApplied(hd, modes')
  /\ op' \in FlagMethod => hd' = Apply(op', hd)
  /\ (op' = "SetMode" /\ modes' = <<>> /\ err' = 0) => calls' = ModeCommit(hd)
  /\ (op' = "Clear" /\ err' = 0) => SubSeq(calls', 2, 4) = ModeCommit(hd)

C29_NoRollbackOnFailure == [][SettersSurviveFailure]_vars

\* SetMode(DisplayOff) failed at its first bus write: the display flag is off
C29_Witness ==
  /\ op = "SetMode"
  /\ modes = <<"DisplayOff">>
  /\ err = 1
  /\ Len(Bus) = 1
  /\ ~DisplayEnabled(hd)
  /\ hd.dMode = 0

(***************************************************************************)
(* C30  On a transport that never fails each per-flag method makes exactly *)
(* one instruction write, the mode-set of the field it changed (display    *)
(* mode set, or entry mode set for EntryShiftOn and EntryShiftOff) with    *)
(* the updated field; the other fields, the other flags, the pin map and   *)
(* the backlight flag stay as they were and are not sent again.            *)
(* ShiftLeft, ShiftRight, Home, WriteChar and SetDDRamAddr change nothing  *)
(* of the connection's state.                                              *)
(***************************************************************************)
FlagMethodStep ==
  /\ op' \in FlagMethod =>
       LET entry == op' \in {"EntryShiftOn", "EntryShiftOff"}
       IN  /\ err' = 0
           /\ calls' = << <<IF entry THEN Or(lcdSetEntryMode, hd'.eMode)
                                     ELSE Or(lcdSetDisplayMode, hd'.dMode),
                            registerSelectLow>> >>
           /\ Len(BusBytes(trace')) = BusPerWrite
           /\ Flags(hd') = [Flags(hd) EXCEPT ![SetterFlag(op')[1]] = SetterFlag(op')[2]]
           /\ hd' = Apply(op', hd)
           /\ IF entry THEN hd'.dMode = hd.dMode ELSE hd'.eMode = hd.eMode
           /\ hd'.fMode = hd.fMode
           /\ hd'.PinMap = hd.PinMap
           /\ hd'.backlight = hd.backlight
  /\ op' \in {"ShiftLeft", "ShiftRight", "Home", "WriteChar", "SetDDRamAddr"} =>
       /\ hd' = hd
       /\ Len(calls') = 1

C30_FlagMethodsSendOneInstruction == [][FlagMethodStep]_vars

\* EntryShiftOn after a cursor was turned on: entry mode set alone is sent
C30_Witness ==
  /\ op = "EntryShiftOn"
  /\ err = 0
  /\ calls = << <<7, registerSelectLow>> >>
  /\ <<hd.eMode, hd.dMode, hd.fMode>> = <<3, 6, 8>>
  /\ Len(Bus) = BusPerWrite

====
